---- MODULE Spec2Model ----
(***************************************************************************)
(* rdeptree: the dependency tree of an installed Python environment.       *)
(*                                                                         *)
(* Text is modelled as a sequence of one-character strings, so that name   *)
(* normalization, keyword matching and constraint parsing are computed     *)
(* character by character, as the program computes them.                   *)
(***************************************************************************)
EXTENDS Integers, Sequences, FiniteSets, TLC

VARIABLES
    pc,                       \* control point of the run
    input,                    \* the input of the function under study
    mid,                      \* an intermediate value of the function under study
    result,                   \* the result of the function under study
    dependency_dag,           \* dag.rs get_dep_dag_from_env: dependency_dag
    origin,                   \* the METADATA file each key of dependency_dag was built from
    n_sources,                \* number of metadata sources visited so far
    dag,                      \* main.rs: the graph get_dep_dag_from_env returned
    top_level_distributions,  \* main.rs: the roots the Root Finder computed
    pending,                  \* main.rs: the roots the final loop has not visited yet
    stack,                    \* render.rs: the active render_dag calls
    out,                      \* the lines printed on stdout
    stderr,                   \* the lines printed on stderr
    exit_code                 \* the process exit status ("running" until it ends)

vars == <<pc, input, mid, result, dependency_dag, origin, n_sources, dag,
          top_level_distributions, pending, stack, out, stderr, exit_code>>

mainVars == <<dependency_dag, origin, n_sources, dag, top_level_distributions,
             pending,
              stack, out, stderr, exit_code>>
studyVars == <<input, mid, result>>

(***************************************************************************)
(* Characters                                                              *)
(***************************************************************************)
LowerLetters == <<"a","b","c","d","e","f","g","h","i","j","k","l","m",
                  "n","o","p","q","r","s","t","u","v","w","x","y","z">>
UpperLetters == <<"A","B","C","D","E","F","G","H","I","J","K","L","M",
                  "N","O","P","Q","R","S","T","U","V","W","X","Y","Z">>
Digits == {"0","1","2","3","4","5","6","7","8","9"}

Range(s) == {s[i] : i \in 1..Len(s)}

IsUpper(c) == c \in Range(UpperLetters)
IsLower(c) == c \in Range(LowerLetters)
IsDigit(c) == c \in Digits
IsSpace(c) == c = " "

\* char::to_lowercase on one character
LowerChar(c) ==
    IF IsUpper(c)
    THEN LowerLetters[CHOOSE i \in 1..26 : UpperLetters[i] = c]
    ELSE c

\* str::to_lowercase
RECURSIVE to_lowercase(_)
to_lowercase(s) ==
    IF s = <<>> THEN <<>> ELSE <<LowerChar(Head(s))>> \o to_lowercase(Tail(s))

\* str::starts_with
starts_with(s, prefix) ==
    /\ Len(prefix) <= Len(s)
    /\ SubSeq(s, 1, Len(prefix)) = prefix

(***************************************************************************)
(* Name Normalizer                                                         *)
(***************************************************************************)
\* the character class of DISTRMETA_NAME_NORMALIZE_REGEX, [-_.]
NormalizeClass == {"-", "_", "."}

Dash == <<"-">>

RECURSIVE Many0In(_, _, _)
Many0In(s, i, class) ==
    IF i <= Len(s) /\ s[i] \in class THEN Many0In(s, i + 1, class) ELSE i

\* first position at or after i that is not in the class: the end of the
\* greedy match of [-_.]+ that starts at i
RECURSIVE RunEnd(_, _)
RunEnd(s, i) ==
    IF i <= Len(s) /\ s[i] \in NormalizeClass THEN RunEnd(s, i + 1) ELSE i

\* Regex::replace_all for the pattern [-_.]+ : leftmost, greedy,
\* non-overlapping matches, each replaced by replace_to
RECURSIVE ReplaceFrom(_, _, _)
ReplaceFrom(s, i, replace_to) ==
    IF i > Len(s) THEN <<>>
    ELSE IF s[i] \in NormalizeClass
         THEN replace_to \o ReplaceFrom(s, RunEnd(s, i), replace_to)
         ELSE <<s[i]>> \o ReplaceFrom(s, i + 1, replace_to)

replace_all(s, replace_to) == ReplaceFrom(s, 1, replace_to)

\* faulty variants of normalize_name: the pattern without its "+" (each separator
\* replaced on its own), and one replacement per separator, one after the other
RECURSIVE ReplaceClass(_, _, _, _, _)
ReplaceClass(s, i, class, greedy, replace_to) ==
    IF i > Len(s) THEN <<>>
    ELSE IF s[i] \in class
         THEN replace_to \o ReplaceClass(s, IF greedy THEN Many0In(s, i, class) ELSE i + 1,
                                        class, greedy, replace_to)
         ELSE <<s[i]>> \o ReplaceClass(s, i + 1, class, greedy, replace_to)

normalize_name_each(name, replace_to) ==
    to_lowercase(ReplaceClass(name, 1, NormalizeClass, FALSE, replace_to))

normalize_name_chained(name, replace_to) ==
    to_lowercase(
        ReplaceClass(
            ReplaceClass(ReplaceClass(name, 1, {"-"}, TRUE, replace_to),
                         1, {"_"}, TRUE, replace_to),
            1, {"."}, TRUE, replace_to))

normalize_name(name, replace_to) == to_lowercase(replace_all(name, replace_to))

(***************************************************************************)
(* Metadata Line Grammar (rules.pest, the grammar DepParser is derived     *)
(* from).  A matcher takes the text and a position and returns the         *)
(* position after the match, or 0 when it does not match; choices are      *)
(* ordered and repetitions greedy, as in a parsing expression grammar.     *)
(***************************************************************************)
Letters == Range(LowerLetters) \cup Range(UpperLetters)
NameChars == Letters \cup Digits \cup {".", "_", "-"}
LocalChars == Letters \cup Digits

Lit(s, i, lit) ==
    IF i > 0 /\ i + Len(lit) - 1 <= Len(s) /\ SubSeq(s, i, i + Len(lit) - 1) = lit
    THEN i + Len(lit) ELSE 0

\* a case-insensitive literal (^"..."), lit given in lower case
LitCI(s, i, lit) ==
    IF i > 0 /\ i + Len(lit) - 1 <= Len(s)
       /\ to_lowercase(SubSeq(s, i, i + Len(lit) - 1)) = lit
    THEN i + Len(lit) ELSE 0

RECURSIVE Many0(_, _, _)
Many0(s, i, class) ==
    IF i = 0 THEN 0
    ELSE IF i <= Len(s) /\ s[i] \in class THEN Many0(s, i + 1, class) ELSE i

Many1(s, i, class) == LET j == Many0(s, i, class) IN IF j > i THEN j ELSE 0

Opt(i, j) == IF j = 0 THEN i ELSE j

FirstOf(js) == IF \E k \in 1..Len(js) : js[k] # 0
               THEN js[CHOOSE k \in 1..Len(js) :
                          js[k] # 0 /\ \A m \in 1..(k - 1) : js[m] = 0]
               ELSE 0

\* N!
Epoch(s, i) == Lit(s, Many1(s, i, Digits), <<"!">>)

\* a release segment: digits, or the wildcard where it is allowed
Segment(s, i, wildcard) ==
    FirstOf(<<Many1(s, i, Digits), IF wildcard THEN Lit(s, i, <<"*">>) ELSE 0>>)

\* ("." segment)* : i is the position reached so far, j the position after
\* one more "." segment, or 0 when there is none
RECURSIVE MoreSegments(_, _, _, _)
MoreSegments(s, i, j, wildcard) ==
    IF j = 0 THEN i
    ELSE MoreSegments(s, j, Segment(s, Lit(s, j, <<".">>), wildcard), wildcard)

SegmentsFrom(s, j, wildcard) ==
    IF j = 0 THEN 0
    ELSE MoreSegments(s, j, Segment(s, Lit(s, j, <<".">>), wildcard), wildcard)

Release(s, i, wildcard) == SegmentsFrom(s, Segment(s, i, wildcard), wildcard)

PreRelease(s, i) ==
    Many1(s, FirstOf(<<Lit(s, i, <<"r","c">>), Lit(s, i, <<"a">>), Lit(s, i, <<"b">>)>>),
          Digits)
PostRelease(s, i) == Many1(s, Lit(s, i, <<".","p","o","s","t">>), Digits)
DevRelease(s, i) == Many1(s, Lit(s, i, <<".","d","e","v">>), Digits)

RECURSIVE MoreLocal(_, _, _)
MoreLocal(s, i, j) ==
    IF j = 0 THEN i
    ELSE MoreLocal(s, j, Many1(s, Lit(s, j, <<".">>), LocalChars))

LocalFrom(s, j) ==
    IF j = 0 THEN 0 ELSE MoreLocal(s, j, Many1(s, Lit(s, j, <<".">>), LocalChars))

LocalVersion(s, i) == LocalFrom(s, Many1(s, Lit(s, i, <<"+">>), LocalChars))

\* the public-version token: [N!]N(.N)*[{a|b|rc}N][.postN][.devN][+local]
OptEpoch(s, i) == Opt(i, Epoch(s, i))
OptPreRelease(s, i) == Opt(i, PreRelease(s, i))
OptPostRelease(s, i) == Opt(i, PostRelease(s, i))
OptDevRelease(s, i) == Opt(i, DevRelease(s, i))
OptLocalVersion(s, i) == Opt(i, LocalVersion(s, i))

VersionTail(s, i) ==
    IF i = 0 THEN 0
    ELSE OptLocalVersion(s, OptDevRelease(s, OptPostRelease(s, OptPreRelease(s, i))))

VersionToken(s, i, wildcard) ==
    IF i = 0 THEN 0 ELSE VersionTail(s, Release(s, OptEpoch(s, i), wildcard))

\* operator: an ordered choice, the longest spellings first
CompareOp(s, i) ==
    FirstOf(<<Lit(s, i, <<"=","=","=">>), Lit(s, i, <<"=","=">>),
              Lit(s, i, <<"!","=">>), Lit(s, i, <<"<","=">>),
              Lit(s, i, <<">","=">>), Lit(s, i, <<"~","=">>),
              Lit(s, i, <<"<">>), Lit(s, i, <<">">>)>>)

\* one clause: <operator><version-token>, blanks allowed between the two
Clause(s, i) == VersionToken(s, Many0(s, CompareOp(s, i), {" "}), TRUE)

\* ("," clause)* : i is the position reached so far, j the position after
\* one more "," clause, or 0 when there is none
RECURSIVE MoreClauses(_, _, _)
MoreClauses(s, i, j) ==
    IF j = 0 THEN i
    ELSE MoreClauses(s, j, Clause(s, Many0(s, Lit(s, j, <<",">>), {" "})))

ClausesFrom(s, j) ==
    IF j = 0 THEN 0
    ELSE MoreClauses(s, j, Clause(s, Many0(s, Lit(s, j, <<",">>), {" "})))

\* Rule::version_comparison: one or more comma-separated clauses.  The rule
\* does not reach to the end of the text: it matches a prefix.
version_comparison(s, i) == ClausesFrom(s, Clause(s, i))

EndOfText(s, i) == i = Len(s) + 1

Text(s, i, j) == SubSeq(s, i, j - 1)

NoMatch == [ok |-> FALSE, inner |-> <<>>]

\* Rule::distribution_name_row: keyword Name (any case), ":", optional
\* blanks, a name token, end of line
\* a row "<keyword>: <value>" whose keyword ends before k, whose value
\* starts at c and ends before e (0: the value does not match)
KeywordRow(s, kw_rule, value_rule, k, c, e) ==
    IF e # 0 /\ EndOfText(s, e)
    THEN [ok |-> TRUE,
          inner |-> << [rule |-> kw_rule, text |-> Text(s, 1, k)],
                       [rule |-> value_rule, text |-> Text(s, c, e)],
                       [rule |-> "EOI", text |-> <<>>] >>]
    ELSE NoMatch

AfterColon(s, k) == Many0(s, Lit(s, k, <<":">>), {" "})

NameRowFrom(s, k, c) ==
    KeywordRow(s, "distribution_name_kw", "distribution_name", k, c,
               Many1(s, c, NameChars))

NameRowKw(s, k) == NameRowFrom(s, k, AfterColon(s, k))

distribution_name_row(s) == NameRowKw(s, LitCI(s, 1, <<"n","a","m","e">>))

\* Rule::distribution_version_row: keyword Version (any case), ":", optional
\* blanks, a public-version token, end of line
VersionRowFrom(s, k, c) ==
    KeywordRow(s, "distribution_version_kw", "distribution_version", k, c,
               VersionToken(s, c, FALSE))

VersionRowKw(s, k) == VersionRowFrom(s, k, AfterColon(s, k))

distribution_version_row(s) ==
    VersionRowKw(s, LitCI(s, 1, <<"v","e","r","s","i","o","n">>))

\* the optional bracketed extras list: "[" ... "]"
Extras(s, i) ==
    Lit(s, Many1(s, Lit(s, i, <<"[">>), NameChars \cup {",", " "}), <<"]">>)

\* the remainder of the line, trimmed of one pair of surrounding parentheses
TrimParens(t) ==
    IF Len(t) >= 2 /\ t[1] = "(" /\ t[Len(t)] = ")" THEN SubSeq(t, 2, Len(t) - 1) ELSE t

\* Rule::required_distribution_row: keyword Requires-Dist: (exact case), a
\* name token, an optional extras list, and the whole remaining text as
\* dependency_str (absent when nothing remains)
OptExtras(s, x) == Opt(x, Extras(s, x))

\* the name token lies between c and e; the remainder of the line is rest
RequiredRow(s, k, c, e, rest) ==
    IF e # 0
    THEN [ok |-> TRUE,
          inner |-> << [rule |-> "required_distribution_kw", text |-> Text(s, 1, k)],
                       [rule |-> "distribution_name", text |-> Text(s, c, e)] >>
                    \o (IF rest = <<>> THEN <<>>
                        ELSE << [rule |-> "dependency_str", text |-> rest] >>)
                    \o << [rule |-> "EOI", text |-> <<>>] >>]
    ELSE NoMatch

RequiredRowName(s, k, c, e) ==
    RequiredRow(s, k, c, e,
                TrimParens(Text(s, Many0(s, OptExtras(s, Many0(s, e, {" "})), {" "}),
                                Len(s) + 1)))

RequiredRowFrom(s, k, c) == RequiredRowName(s, k, c, Many1(s, c, NameChars))

RequiredRowKw(s, k) == RequiredRowFrom(s, k, Many0(s, k, {" "}))

required_distribution_row(s) ==
    RequiredRowKw(s, Lit(s, 1, <<"R","e","q","u","i","r","e","s","-","D","i","s","t",":">>))

\* DepParser::parse(row_rule, line)
ParseRow(row_rule, s) ==
    CASE row_rule = "distribution_name_row" -> distribution_name_row(s)
      [] row_rule = "distribution_version_row" -> distribution_version_row(s)
      [] row_rule = "required_distribution_row" -> required_distribution_row(s)

(***************************************************************************)
(* Inputs                                                                  *)
(***************************************************************************)
MaxNameLen == 4
MaxLines == 4

\* the sequences of n elements of S
SeqsOfLen(S, n) == [1..n -> S]

\* raw names for the Name Normalizer
NormAlphabet == {"a", "B", "1", "-", "_", "."}
RawNames(n) == SeqsOfLen(NormAlphabet, n)

\* the sentinel line that ends the header section of a METADATA file
Sentinel == <<"D","e","s","c","r","i","p","t","i","o","n","-",
              "C","o","n","t","e","n","t","-","T","y","p","e">>

KwRequires == <<"R","e","q","u","i","r","e","s","-","D","i","s","t",":">>
NameLine(kw, n) == kw \o <<":", " ">> \o n
VersionLine(kw, v) == kw \o <<":", " ">> \o v
RequiresLine(n, rest) == KwRequires \o <<" ">> \o n \o rest

MarkerX == <<";"," ","e","x","t","r","a"," ","=","="," ","\"","x","\"">>
MarkerY == <<";"," ","e","x","t","r","a"," ","=","="," ","\"","y","\"">>

L_NameAb == NameLine(<<"N","a","m","e">>, <<"A","_","b">>)
L_nameC == NameLine(<<"n","a","m","e">>, <<"c">>)
L_Version10 == VersionLine(<<"V","e","r","s","i","o","n">>, <<"1",".","0">>)
L_version2dev1 == VersionLine(<<"v","e","r","s","i","o","n">>, <<"2",".","d","e","v","1">>)
L_ReqCdMarkerX == RequiresLine(<<"C","_","d">>, <<">","=","1",".","0">> \o MarkerX)
L_ReqCdMarkerY == RequiresLine(<<"C","_","d">>, <<">","=","1",".","0">> \o MarkerY)
L_ReqCdOther == RequiresLine(<<"c","-","d">>, <<" ","=","="," ","2",".","0",",","<","3">>)
L_ReqMalformed == RequiresLine(<<"x">>, <<">","=","a","b","c">>)
L_ReqNamex == RequiresLine(<<"n","a","m","e","x">>, <<">","=","0",".","0",".","8">>)
L_ReqVersioneer == RequiresLine(<<"v","e","r","s","i","o","n","e","e","r">>, <<>>)
L_ReqBare == RequiresLine(<<"y">>, <<>>)
L_ReqMarkerOnly == RequiresLine(<<"y">>, MarkerX)
L_Other == <<"N","a","m","e","d","R","o","w",":"," ","o","k">>
L_Empty == <<>>
L_Sentinel == Sentinel

\* the lines a metadata file of the node-builder study is made of
NodeLines == {L_NameAb, L_nameC, L_Version10, L_version2dev1,
              L_ReqCdMarkerX, L_ReqCdMarkerY, L_ReqCdOther,
              L_ReqMalformed, L_ReqNamex, L_ReqVersioneer, L_ReqBare,
              L_ReqMarkerOnly, L_Other, L_Empty, L_Sentinel}

NodeFiles(n) == SeqsOfLen(NodeLines, n)

MaxSources == 3
MaxDeps == 2
MaxDepth == 3

E_ReqA == RequiresLine(<<"A">>, <<">","=","1",".","0">>)
E_ReqB == RequiresLine(<<"b","_","B">>, <<"=","=","2",".","0">> \o MarkerX)
E_ReqC == RequiresLine(<<"c">>, <<"<","3">>)

\* the raw names of the distributions of the environment
EnvNames == {<<"a">>, <<"B",".","b">>, <<"c">>}
EnvDepLines == <<E_ReqA, E_ReqB, E_ReqC>>

\* the lines of EnvDepLines at the positions of I, in the order of EnvDepLines
RECURSIVE DepLinesAt(_, _)
DepLinesAt(I, i) ==
    IF i > Len(EnvDepLines) THEN <<>>
    ELSE (IF i \in I THEN <<EnvDepLines[i]>> ELSE <<>>) \o DepLinesAt(I, i + 1)

EnvDeps == {DepLinesAt(I, 1) : I \in {J \in SUBSET (1..Len(EnvDepLines)) :
                                         Cardinality(J) <= MaxDeps}}

\* a well-formed metadata file: name, version, dependencies, then the
\* description, which repeats a Version line after the sentinel
File(n, deps) ==
    <<NameLine(<<"N","a","m","e">>, n), L_Version10>> \o deps
        \o <<L_Sentinel, L_version2dev1>>

\* metadata files Node Builder fails on, and one whose dependency name
\* starts with "name"
BadFiles == { <<NameLine(<<"N","a","m","e">>, <<"a">>)>>,
              <<L_Version10, E_ReqA>>,
              <<NameLine(<<"N","a","m","e">>, <<"c">>), L_Version10, L_ReqMalformed>>,
              <<NameLine(<<"N","a","m","e">>, <<"c">>), L_Version10, L_ReqNamex>> }

EnvFiles == {File(n, deps) : n \in EnvNames, deps \in EnvDeps}
                \cup {File(<<"n","a","m","e","x">>, <<>>)} \cup BadFiles

\* every line of every input
InputLines == NodeLines \cup UNION {Range(f) : f \in EnvFiles}

(***************************************************************************)
(* Node Builder                                                            *)
(***************************************************************************)
\* RequiredDistribution::from_str
RequiredDistribution_from_str(name, version) ==
    [name |-> normalize_name(name, Dash), required_version |-> version]

ParseError == "Failed to parse dependency version expression"
MissingName == "Can not parse package name from file"
MissingVersion == "Can not parse version name from file"

\* faulty variant of ParsedDep: the whole collected text is stored
ParsedDep_raw(dep) == RequiredDistribution_from_str(dep[1], dep[2])

\* the dependency one collected pair is turned into: the text matched by
\* Rule::version_comparison (parse_pair.as_str()) under the normalized name
ParsedDep(dep) ==
    RequiredDistribution_from_str(dep[1], Text(dep[2], 1, version_comparison(dep[2], 1)))

\* faulty variant of from_parsed_file: a dependency whose constraint does not parse
\* is left out and the node is built from the others
from_parsed_file_lenient(installed_version, dependencies) ==
    [ok |-> TRUE,
     meta |-> [installed_version |-> installed_version,
               dependencies |-> {ParsedDep(dep) :
                                   dep \in {d \in dependencies :
                                              version_comparison(d[2], 1) # 0}}]]

\* DistributionMeta::from_parsed_file
from_parsed_file(installed_version, dependencies) ==
    IF \E dep \in dependencies : version_comparison(dep[2], 1) = 0
    THEN [ok |-> FALSE, err |-> ParseError]
    ELSE [ok |-> TRUE,
          meta |-> [installed_version |-> installed_version,
                    dependencies |-> {ParsedDep(dep) : dep \in dependencies}]]

\* the rows parse_line tries, in order: (row_rule, key_rule, value_rule)
rules == << <<"distribution_name_row", "distribution_name_kw", "distribution_name">>,
            <<"distribution_version_row", "distribution_version_kw", "distribution_version">>,
            <<"required_distribution_row", "distribution_name", "dependency_str">> >>

\* the loop over the inner pairs of a parsed row: the text of the last pair
\* of the rule, or the empty string when the row has none
RECURSIVE PairText(_, _, _)
PairText(inner, rule, acc) ==
    IF inner = <<>> THEN acc
    ELSE PairText(Tail(inner), rule,
                  IF Head(inner).rule = rule THEN Head(inner).text ELSE acc)

KeyName == <<"n","a","m","e">>
KeyVersion == <<"v","e","r","s","i","o","n">>

\* what parse_line returns for a row that matched
\* the end of the body of the loop of parse_line
Classified(key, value) ==
    IF starts_with(key, KeyName) \/ starts_with(key, KeyVersion)
    THEN [kind |-> "Meta", key |-> key, value |-> value]
    ELSE [kind |-> "Dependency", key |-> key, value |-> value]

\* what parse_line returns for a row that matched
Classify(parsed, key_rule, value_rule) ==
    Classified(to_lowercase(PairText(parsed.inner, key_rule, <<>>)),
               PairText(parsed.inner, value_rule, <<>>))

\* the loop of parse_line from rule n on, parsed being what rule n gives
RECURSIVE TryRules(_, _, _)
TryRules(line, n, parsed) ==
    IF parsed.ok THEN Classify(parsed, rules[n][2], rules[n][3])
    ELSE IF n = Len(rules) THEN [kind |-> "None"]
    ELSE TryRules(line, n + 1, ParseRow(rules[n + 1][1], line))

\* parse_line
parse_line(line) == TryRules(line, 1, ParseRow(rules[1][1], line))

None == [some |-> FALSE]
Some(v) == [some |-> TRUE, val |-> v]

ScanInit == [name |-> None, version |-> None, dependencies |-> {}]

\* faulty variant of Collect: a line no row matches ends the header, and what
\* was collected before it is lost
Collect_reset(st, parsed_line) ==
    CASE parsed_line.kind = "Meta" ->
           IF starts_with(parsed_line.key, KeyName)
           THEN [st EXCEPT !.name = Some(parsed_line.value)]
           ELSE IF starts_with(parsed_line.key, KeyVersion)
                THEN [st EXCEPT !.version = Some(parsed_line.value)]
                ELSE st
      [] parsed_line.kind = "Dependency" ->
           [st EXCEPT !.dependencies = @ \cup {<<parsed_line.key, parsed_line.value>>}]
      [] OTHER -> ScanInit

\* the match on parsed_line in the loop of node_from_file_iter
Collect(st, parsed_line) ==
    CASE parsed_line.kind = "Meta" ->
           IF starts_with(parsed_line.key, KeyName)
           THEN [st EXCEPT !.name = Some(parsed_line.value)]
           ELSE IF starts_with(parsed_line.key, KeyVersion)
                THEN [st EXCEPT !.version = Some(parsed_line.value)]
                ELSE st
      [] parsed_line.kind = "Dependency" ->
           [st EXCEPT !.dependencies = @ \cup {<<parsed_line.key, parsed_line.value>>}]
      [] OTHER -> st

\* parse_line tabulated over the lines of the inputs
ParsedLines == [l \in InputLines |-> parse_line(l)]

\* one iteration of the loop of node_from_file_iter
ScanLine(st, line) ==
    Collect(st, IF line \in InputLines THEN ParsedLines[line] ELSE parse_line(line))

RECURSIVE Scan(_, _)
Scan(st, source_iter) ==
    IF source_iter = <<>> THEN st
    ELSE Scan(ScanLine(st, Head(source_iter)), Tail(source_iter))

\* the last two statements of node_from_file_iter
Construct(validated_name, dm) ==
    IF ~dm.ok THEN dm
    ELSE [ok |-> TRUE, name |-> normalize_name(validated_name, Dash), meta |-> dm.meta]

\* the validation that follows the loop of node_from_file_iter
Validate(st) ==
    IF ~st.name.some THEN [ok |-> FALSE, err |-> MissingName]
    ELSE IF ~st.version.some THEN [ok |-> FALSE, err |-> MissingVersion]
    ELSE Construct(normalize_name(st.name.val, Dash),
                   from_parsed_file(st.version.val, st.dependencies))

\* node_from_file_iter
node_from_file_iter(source_iter) == Validate(Scan(ScanInit, source_iter))

(***************************************************************************)
(* Reading one metadata file                                               *)
(***************************************************************************)
\* the stop function get_dep_dag_from_env hands to get_lnreader
stop_func(line) == ~(line = Sentinel)

\* faulty variant of take_while: the lines that stop the reader are left out
\* and reading goes on (Iterator::filter)
RECURSIVE take_while_filter(_)
take_while_filter(lines) ==
    IF lines = <<>> THEN <<>>
    ELSE (IF stop_func(Head(lines)) THEN <<Head(lines)>> ELSE <<>>)
            \o take_while_filter(Tail(lines))

\* Iterator::take_while
RECURSIVE take_while(_)
take_while(lines) ==
    IF lines = <<>> \/ ~stop_func(Head(lines)) THEN <<>>
    ELSE <<Head(lines)>> \o take_while(Tail(lines))

\* get_lnreader, with the stop function of get_dep_dag_from_env
get_lnreader(file) == take_while(file)

(***************************************************************************)
(* Graph assembly, Root Finder, Tree Renderer                              *)
(***************************************************************************)
EmptyDag == [k \in {} |-> None]

\* HashMap::insert
Insert(map, k, v) == [x \in DOMAIN map \cup {k} |-> IF x = k THEN v ELSE map[x]]

\* main.rs: the names some node of the graph depends on
non_empty_dependenices_names(g) ==
    {d.name : d \in UNION {g[k].dependencies : k \in DOMAIN g}}

\* faulty variant of TopLevel: a node's own dependencies are not looked at
TopLevel_other_nodes(g) ==
    {k \in DOMAIN g :
        \A n \in DOMAIN g \ {k} : \A d \in g[n].dependencies : d.name # k}

\* main.rs: the graph keys no node depends on
TopLevel(g) == {k \in DOMAIN g : k \notin non_empty_dependenices_names(g)}

NotInstalled == <<"N","o","t","-","i","n","s","t","a","l","l","e","d">>

\* faulty variant of MetaOf: the placeholder carries no marker
MetaOf_unmarked(g, node_name) ==
    IF node_name \in DOMAIN g THEN g[node_name]
    ELSE [installed_version |-> <<>>, dependencies |-> {}]

\* render.rs: the metadata render_dag works with
MetaOf(g, node_name) ==
    IF node_name \in DOMAIN g THEN g[node_name]
    ELSE [installed_version |-> NotInstalled, dependencies |-> {}]

RECURSIVE repeat(_, _)
repeat(c, n) == IF n = 0 THEN <<>> ELSE <<c>> \o repeat(c, n - 1)

\* faulty variant of PrintedLine: the label is never printed
PrintedLine_unlabelled(g, node_name, node_required_ver, level) ==
    repeat("-", level) \o node_name \o <<" ","[","i","n","s","t","a","l","l","e","d","=">>
        \o MetaOf(g, node_name).installed_version \o <<"]">>

\* render.rs: the line render_dag prints
PrintedLine(g, node_name, node_required_ver, level) ==
    LET prefix == repeat("-", level)
        meta == MetaOf(g, node_name)
    IN IF node_required_ver.some
       THEN prefix \o node_name \o <<" ","[","r","e","q","u","i","r","e","d","=">> \o node_required_ver.val
                \o <<","," ","i","n","s","t","a","l","l","e","d","=">> \o meta.installed_version \o <<"]">>
       ELSE prefix \o node_name \o <<" ","[","i","n","s","t","a","l","l","e","d","=">> \o meta.installed_version \o <<"]">>

\* render.rs: the call render_dag(dag, node_name, node_required_ver, level)
\* up to the start of its loop over the dependencies
Frame(g, node_name, node_required_ver, level) ==
    [node_name |-> node_name, node_required_ver |-> node_required_ver,
     level |-> level, todo |-> MetaOf(g, node_name).dependencies]

Init ==
    /\ pc = "assemble"
    /\ input = <<>> /\ mid = <<>> /\ result = None
    /\ dependency_dag = EmptyDag
    /\ origin = EmptyDag
    /\ n_sources = 0
    /\ dag = None
    /\ top_level_distributions = {}
    /\ pending = {}
    /\ stack = <<>>
    /\ out = <<>>
    /\ stderr = <<>>
    /\ exit_code = None

\* dag.rs:170-177: what the reader and Node Builder make of each METADATA
\* file of the environment
EnvNodes == [file \in EnvFiles |-> node_from_file_iter(get_lnreader(file))]

Accepted(file, node) ==
    /\ node.ok
    /\ dependency_dag' = Insert(dependency_dag, node.name, node.meta)
    /\ origin' = Insert(origin, node.name, file)

Rejected(node) ==
    /\ ~node.ok
    /\ stderr' = Append(stderr, node.err)

\* dag.rs get_dep_dag_from_env: one directory of the loop whose METADATA
\* file Node Builder accepts
InsertNode ==
    /\ pc = "assemble"
    /\ n_sources < MaxSources
    /\ \E file \in EnvFiles : Accepted(file, EnvNodes[file])
    /\ n_sources' = n_sources + 1
    /\ UNCHANGED <<pc, studyVars, dag, top_level_distributions, pending, stack,
                   out, stderr, exit_code>>

\* faulty variant of AbortAssembly: the failure is reported and the loop goes on
AbortAssembly_skip ==
    /\ pc = "assemble"
    /\ n_sources < MaxSources
    /\ \E file \in EnvFiles : Rejected(EnvNodes[file])
    /\ n_sources' = n_sources + 1
    /\ UNCHANGED <<pc, studyVars, dependency_dag, origin, dag, top_level_distributions,
                   pending, stack, out, exit_code>>

\* dag.rs get_dep_dag_from_env: one directory of the loop whose METADATA
\* file Node Builder rejects; the error is returned and main exits
AbortAssembly ==
    /\ pc = "assemble"
    /\ n_sources < MaxSources
    /\ \E file \in EnvFiles : Rejected(EnvNodes[file])
    /\ n_sources' = n_sources + 1
    /\ dependency_dag' = EmptyDag
    /\ origin' = EmptyDag
    /\ pc' = "exited"
    /\ exit_code' = Some(1)
    /\ UNCHANGED <<studyVars, dag, top_level_distributions, pending, stack, out>>

\* faulty variant of FindRoots: when no graph key is unreferenced, every graph
\* key is taken as a top-level distribution
FindRoots_fallback ==
    /\ pc = "assemble"
    /\ dag' = Some(dependency_dag)
    /\ top_level_distributions' =
          (IF TopLevel(dependency_dag) = {} THEN DOMAIN dependency_dag
           ELSE TopLevel(dependency_dag))
    /\ pending' = top_level_distributions'
    /\ pc' = "render"
    /\ UNCHANGED <<studyVars, dependency_dag, origin, n_sources, stack, out, stderr,
                   exit_code>>

\* get_dep_dag_from_env returns Ok; main computes the top-level
\* distributions
FindRoots ==
    /\ pc = "assemble"
    /\ dag' = Some(dependency_dag)
    /\ top_level_distributions' = TopLevel(dependency_dag)
    /\ pending' = TopLevel(dependency_dag)
    /\ pc' = "render"
    /\ UNCHANGED <<studyVars, dependency_dag, origin, n_sources, stack, out, stderr,
                   exit_code>>

\* faulty variant of RenderRoot: the loop over the top-level distributions
\* ends after its first round
RenderRoot_first ==
    /\ pc = "render"
    /\ stack = <<>>
    /\ \E tlp \in pending :
         /\ pending' = {}
         /\ out' = Append(out, PrintedLine(dag.val, tlp, None, 0))
         /\ stack' = <<Frame(dag.val, tlp, None, 0)>>
    /\ UNCHANGED <<pc, studyVars, dependency_dag, origin, n_sources, dag,
                   top_level_distributions, stderr, exit_code>>

\* main.rs: render_dag(&dag, tlp, None, 0) for the next top-level
\* distribution
RenderRoot ==
    /\ pc = "render"
    /\ stack = <<>>
    /\ \E tlp \in pending :
         /\ pending' = pending \ {tlp}
         /\ out' = Append(out, PrintedLine(dag.val, tlp, None, 0))
         /\ stack' = <<Frame(dag.val, tlp, None, 0)>>
    /\ UNCHANGED <<pc, studyVars, dependency_dag, origin, n_sources, dag,
                   top_level_distributions, stderr, exit_code>>

\* faulty variant of RenderChild: a dependency that is being visited further
\* up the stack is not visited again
RenderChild_once ==
    /\ pc = "render"
    /\ stack # <<>>
    /\ Len(stack) <= MaxDepth
    /\ LET top == stack[Len(stack)]
       IN \E dep \in top.todo :
            IF \E i \in 1..Len(stack) : stack[i].node_name = dep.name
            THEN /\ stack' = [stack EXCEPT ![Len(stack)].todo = @ \ {dep}]
                 /\ out' = out
            ELSE /\ out' = Append(out, PrintedLine(dag.val, dep.name,
                                                   Some(dep.required_version), top.level + 4))
                 /\ stack' = Append([stack EXCEPT ![Len(stack)].todo = @ \ {dep}],
                                    Frame(dag.val, dep.name, Some(dep.required_version),
                                          top.level + 4))
    /\ UNCHANGED <<pc, studyVars, dependency_dag, origin, n_sources, dag,
                   top_level_distributions, pending, stderr, exit_code>>

\* faulty variant of RenderChild: a dependency whose name has been printed
\* under the same label before is taken off the loop without a visit
RenderChild_memo ==
    /\ pc = "render"
    /\ stack # <<>>
    /\ Len(stack) <= MaxDepth
    /\ LET top == stack[Len(stack)]
       IN \E dep \in top.todo :
            IF \E i \in 1..Len(out), lvl \in 1..Len(out) :
                  out[i] = PrintedLine(dag.val, dep.name, Some(dep.required_version), 4 * lvl)
            THEN /\ stack' = [stack EXCEPT ![Len(stack)].todo = @ \ {dep}]
                 /\ out' = out
            ELSE /\ out' = Append(out, PrintedLine(dag.val, dep.name,
                                                   Some(dep.required_version), top.level + 4))
                 /\ stack' = Append([stack EXCEPT ![Len(stack)].todo = @ \ {dep}],
                                    Frame(dag.val, dep.name, Some(dep.required_version),
                                          top.level + 4))
    /\ UNCHANGED <<pc, studyVars, dependency_dag, origin, n_sources, dag,
                   top_level_distributions, pending, stderr, exit_code>>

\* render.rs: the loop of the innermost call takes a dependency and calls
\* render_dag(dag, &dep.name, Some(&dep.required_version), level + 4)
RenderChild ==
    /\ pc = "render"
    /\ stack # <<>>
    /\ Len(stack) <= MaxDepth
    /\ LET top == stack[Len(stack)]
       IN \E dep \in top.todo :
            /\ out' = Append(out, PrintedLine(dag.val, dep.name,
                                              Some(dep.required_version), top.level + 4))
            /\ stack' = Append([stack EXCEPT ![Len(stack)].todo = @ \ {dep}],
                               Frame(dag.val, dep.name, Some(dep.required_version),
                                     top.level + 4))
    /\ UNCHANGED <<pc, studyVars, dependency_dag, origin, n_sources, dag,
                   top_level_distributions, pending, stderr, exit_code>>

\* faulty variant of RenderReturn: the call returns whether or not its loop
\* is over
RenderReturn_early ==
    /\ pc = "render"
    /\ stack # <<>>
    /\ stack' = SubSeq(stack, 1, Len(stack) - 1)
    /\ UNCHANGED <<pc, studyVars, dependency_dag, origin, n_sources, dag,
                   top_level_distributions, pending, out, stderr, exit_code>>

\* render.rs: the loop of the innermost call is over; the call returns
RenderReturn ==
    /\ pc = "render"
    /\ stack # <<>>
    /\ stack[Len(stack)].todo = {}
    /\ stack' = SubSeq(stack, 1, Len(stack) - 1)
    /\ UNCHANGED <<pc, studyVars, dependency_dag, origin, n_sources, dag,
                   top_level_distributions, pending, out, stderr, exit_code>>

\* main returns
Exit ==
    /\ pc = "render"
    /\ stack = <<>>
    /\ pending = {}
    /\ pc' = "exited"
    /\ exit_code' = Some(0)
    /\ UNCHANGED <<studyVars, dependency_dag, origin, n_sources, dag,
                   top_level_distributions, pending, stack, out, stderr>>

Next == InsertNode \/ AbortAssembly \/ FindRoots \/ RenderRoot \/ RenderChild
            \/ RenderReturn \/ Exit

Spec == Init /\ [][Next]_vars

\* the program is one sequential thread: as long as a step of main is
\* possible, one is taken
SpecLive == Init /\ [][Next]_vars /\ WF_vars(Next)

(***************************************************************************)
(* The Name Normalizer on its own                                          *)
(***************************************************************************)
MainIdle ==
    /\ dependency_dag = EmptyDag /\ origin = EmptyDag /\ n_sources = 0 /\ dag = None
    /\ top_level_distributions = {} /\ pending = {} /\ stack = <<>>
    /\ out = <<>> /\ stderr = <<>> /\ exit_code = None

InitNorm ==
    /\ pc = "normalize"
    /\ \E n \in 1..MaxNameLen : input \in RawNames(n)
    /\ mid = <<>>
    /\ result = None
    /\ MainIdle

\* normalize_name(name, "-")
Normalize ==
    /\ pc = "normalize"
    /\ mid' = normalize_name(input, Dash)
    /\ pc' = "renormalize"
    /\ UNCHANGED <<input, result, mainVars>>

\* normalize_name applied to its own result
Renormalize ==
    /\ pc = "renormalize"
    /\ result' = Some(normalize_name(mid, Dash))
    /\ pc' = "normalized"
    /\ UNCHANGED <<input, mid, mainVars>>

\* Node Builder on a file that declares the raw name: the key it returns
NodeKey ==
    /\ pc = "normalized"
    /\ result' = [some |-> TRUE, val |-> result.val,
                  node |-> node_from_file_iter(
                             <<NameLine(<<"N","a","m","e">>, input), L_Version10>>)]
    /\ pc' = "keyed"
    /\ UNCHANGED <<input, mid, mainVars>>

NextNorm == Normalize \/ Renormalize \/ NodeKey

SpecNorm == InitNorm /\ [][NextNorm]_vars

(***************************************************************************)
(* The Node Builder on its own                                             *)
(***************************************************************************)
InitNode ==
    /\ pc = "read"
    /\ \E n \in 0..MaxLines : input \in NodeFiles(n)
    /\ mid = <<>>
    /\ result = None
    /\ MainIdle

\* dag.rs get_dep_dag_from_env, lines 170-177: the reader stops at the
\* sentinel and Node Builder consumes what the reader yields
NodeFromFile ==
    /\ pc = "read"
    /\ mid' = get_lnreader(input)
    /\ result' = Some(node_from_file_iter(get_lnreader(input)))
    /\ pc' = "built"
    /\ UNCHANGED <<input, mainVars>>

NextNode == NodeFromFile

SpecNode == InitNode /\ [][NextNode]_vars

(***************************************************************************)
(* Claims about the Name Normalizer (checked under SpecNorm)               *)
(***************************************************************************)
\* the positions of x that start a maximal run of separators or hold
\* another character
RunStarts(x) ==
    {i \in 1..Len(x) : ~(x[i] \in {"-", "_", "."} /\ i > 1 /\ x[i - 1] \in {"-", "_", "."})}

NthOf(S, n) == CHOOSE i \in S : Cardinality({j \in S : j < i}) = n - 1

\* x with every maximal run of '-', '_', '.' replaced by one '-', in lower case
CollapsedLower(x) ==
    [n \in 1..Cardinality(RunStarts(x)) |->
        IF x[NthOf(RunStarts(x), n)] \in {"-", "_", "."} THEN "-"
        ELSE LowerChar(x[NthOf(RunStarts(x), n)])]

ComplicatedName ==
    <<"t","h","e","r","e","-","i","s","_","v","e","r","y","-","-","c","o","m","p","l",
      "i","c","a","t","e","d","_","D","E","P","E","N","D","E","N","C","Y","_","-","_",
      "-","n","a","m","e">>
ComplicatedNormalized ==
    <<"t","h","e","r","e","-","i","s","-","v","e","r","y","-","c","o","m","p","l","i",
      "c","a","t","e","d","-","d","e","p","e","n","d","e","n","c","y","-","n","a","m","e">>

\* C8: for every non-empty name, normalize_name(x, "-") is x with every
\* maximal run of '-', '_', '.' replaced by a single '-' and then put in lower
\* case; the result has no '_', no '.', no two adjacent '-' and no upper-case
\* letter
C8_NormalizeCollapsesRuns ==
    /\ normalize_name(ComplicatedName, Dash) = ComplicatedNormalized
    /\ pc # "normalize" =>
          /\ mid = CollapsedLower(input)
          /\ \A i \in 1..Len(mid) :
                /\ mid[i] \notin {"_", "."}
                /\ ~IsUpper(mid[i])
                /\ i > 1 => ~(mid[i] = "-" /\ mid[i - 1] = "-")

C8_Witness ==
    /\ pc = "renormalize"
    /\ input = <<"B", "_", "-", "a">>
    /\ mid = <<"b", "-", "a">>

\* C9: normalize(normalize(x)) = normalize(x) for every name x, and the key
\* Node Builder returns for a file declaring x, which it normalizes twice,
\* is normalize(x)
C9_NormalizeIdempotent ==
    /\ pc \in {"normalized", "keyed"} => result.val = mid
    /\ pc = "keyed" => result.node.ok /\ result.node.name = mid

C9_Witness ==
    /\ pc = "keyed"
    /\ input = <<"a", "_", "-", "B">>
    /\ result.node.name = <<"a", "-", "b">>

(***************************************************************************)
(* Claims about Node Builder (checked under SpecNode).  A line is looked   *)
(* at through the grammar's rows, not through parse_line.                  *)
(***************************************************************************)
RowFacts(line) ==
    [isName |-> distribution_name_row(line).ok,
     isVersion |-> distribution_version_row(line).ok,
     isRequires |-> required_distribution_row(line).ok,
     declName |-> PairText(distribution_name_row(line).inner, "distribution_name", <<>>),
     declVersion |-> PairText(distribution_version_row(line).inner,
                              "distribution_version", <<>>),
     reqName |-> PairText(required_distribution_row(line).inner, "distribution_name", <<>>),
     reqRest |-> PairText(required_distribution_row(line).inner, "dependency_str", <<>>)]

Rows == [l \in InputLines |-> RowFacts(l)]

HasNameDecl(lines) == \E i \in 1..Len(lines) : Rows[lines[i]].isName
HasVersionDecl(lines) == \E i \in 1..Len(lines) : Rows[lines[i]].isVersion

\* the Requires-Dist lines Node Builder collects as dependencies
Collected(line) == Rows[line].isRequires /\ ParsedLines[line].kind = "Dependency"

RECURSIVE TrimRight(_)
TrimRight(t) ==
    IF t # <<>> /\ t[Len(t)] = " " THEN TrimRight(SubSeq(t, 1, Len(t) - 1)) ELSE t

\* the text before the first ";", without the blanks that end it
BeforeMarker(t) ==
    IF \E i \in 1..Len(t) : t[i] = ";"
    THEN TrimRight(SubSeq(t, 1, (CHOOSE i \in 1..Len(t) :
                                    t[i] = ";" /\ \A j \in 1..(i - 1) : t[j] # ";") - 1))
    ELSE TrimRight(t)

\* the text is one or more version-comparison clauses and nothing else
IsClauses(t) == version_comparison(t, 1) = Len(t) + 1

Built == pc = "built" /\ result.val.ok
Deps == result.val.meta.dependencies

\* C2: a line sequence with no Name declaration gives MissingName, and one
\* with a Name declaration and no Version declaration gives MissingVersion,
\* whatever the other lines are
C2_MissingNameOrVersion ==
    pc = "built" =>
        /\ ~HasNameDecl(mid) => result.val = [ok |-> FALSE, err |-> MissingName]
        /\ HasNameDecl(mid) /\ ~HasVersionDecl(mid)
              => result.val = [ok |-> FALSE, err |-> MissingVersion]

\* C3: with a Name and a Version declaration present, one collected
\* dependency whose constraint text does not match the version-comparison
\* grammar makes node construction fail with the constraint error; no node
\* is returned
C3_FailFastOnDependency ==
    (/\ pc = "built"
     /\ HasNameDecl(mid) /\ HasVersionDecl(mid)
     /\ \E i \in 1..Len(mid) :
           Collected(mid[i]) /\ version_comparison(ParsedLines[mid[i]].value, 1) = 0)
    => result.val = [ok |-> FALSE, err |-> ParseError]

C3_Witness ==
    /\ pc = "built"
    /\ mid = <<L_NameAb, L_Version10, L_ReqCdOther, L_ReqMalformed>>
    /\ result.val = [ok |-> FALSE, err |-> ParseError]

\* two Requires-Dist lines that name the same dependency and differ only in
\* the environment marker that follows the same version clause
DifferOnlyInMarker(l1, l2) ==
    /\ Rows[l1].isRequires /\ Rows[l2].isRequires
    /\ Rows[l1].reqName = Rows[l2].reqName
    /\ Rows[l1].reqRest # Rows[l2].reqRest
    /\ BeforeMarker(Rows[l1].reqRest) = BeforeMarker(Rows[l2].reqRest)
    /\ BeforeMarker(Rows[l1].reqRest) # <<>>
    /\ IsClauses(BeforeMarker(Rows[l1].reqRest))

\* the entries of the built node for the dependency of line l whose
\* required_version starts with the version clause of l
EntriesFor(l) ==
    {d \in Deps : /\ d.name = CollapsedLower(Rows[l].reqName)
                  /\ starts_with(d.required_version, BeforeMarker(Rows[l].reqRest))}

\* C5 as stated: two such declarations yield two distinct entries
C5_Original ==
    Built => \A i, j \in 1..Len(mid) :
                DifferOnlyInMarker(mid[i], mid[j]) => Cardinality(EntriesFor(mid[i])) >= 2

\* C5 as amended: two such declarations never yield two entries; when Node
\* Builder collects them they are two pairs of its working set and one entry
\* of the built node, the normalized name with the common version clause
C5_MarkerVariantsCollapse ==
    Built => \A i, j \in 1..Len(mid) :
                DifferOnlyInMarker(mid[i], mid[j]) =>
                    /\ Cardinality(EntriesFor(mid[i])) <= 1
                    /\ Collected(mid[i]) /\ Collected(mid[j]) =>
                          /\ Cardinality({p \in Scan(ScanInit, mid).dependencies :
                                            p[2] \in {Rows[mid[i]].reqRest,
                                                      Rows[mid[j]].reqRest}}) = 2
                          /\ EntriesFor(mid[i]) =
                                {[name |-> CollapsedLower(Rows[mid[i]].reqName),
                                  required_version |-> BeforeMarker(Rows[mid[i]].reqRest)]}

C5_Witness ==
    /\ Built
    /\ mid = <<L_NameAb, L_Version10, L_ReqCdMarkerX, L_ReqCdMarkerY>>
    /\ Deps = {[name |-> <<"c","-","d">>, required_version |-> <<">","=","1",".","0">>]}

\* a Requires-Dist line with a version clause followed by a marker
ClauseThenMarker(l) ==
    /\ Rows[l].isRequires
    /\ BeforeMarker(Rows[l].reqRest) # Rows[l].reqRest
    /\ BeforeMarker(Rows[l].reqRest) # <<>>
    /\ IsClauses(BeforeMarker(Rows[l].reqRest))

\* C6 as stated: the entry stores the whole remainder, marker included
C6_Original ==
    Built => \A i \in 1..Len(mid) :
                ClauseThenMarker(mid[i]) =>
                    [name |-> CollapsedLower(Rows[mid[i]].reqName),
                     required_version |-> Rows[mid[i]].reqRest] \in Deps

\* C6 as amended: the line grammar captures the whole remainder, marker
\* included, and Node Builder collects it; the entry of the built node
\* stores the version clause alone, and no entry stores the remainder
C6_MarkerNotStored ==
    Built => \A i \in 1..Len(mid) :
                ClauseThenMarker(mid[i]) =>
                    /\ [name |-> CollapsedLower(Rows[mid[i]].reqName),
                        required_version |-> Rows[mid[i]].reqRest] \notin Deps
                    /\ Collected(mid[i]) =>
                          /\ ParsedLines[mid[i]].value = Rows[mid[i]].reqRest
                          /\ <<ParsedLines[mid[i]].key, Rows[mid[i]].reqRest>>
                                \in Scan(ScanInit, mid).dependencies
                          /\ [name |-> CollapsedLower(Rows[mid[i]].reqName),
                              required_version |-> BeforeMarker(Rows[mid[i]].reqRest)]
                                \in Deps

C6_Witness ==
    /\ Built
    /\ mid = <<L_NameAb, L_Version10, L_ReqCdMarkerX>>
    /\ Rows[L_ReqCdMarkerX].reqRest = <<">","=","1",".","0">> \o MarkerX
    /\ Deps = {[name |-> <<"c","-","d">>, required_version |-> <<">","=","1",".","0">>]}

\* C7: every Requires-Dist line Node Builder collects has an entry in the
\* built node whose name is the normalized dependency name and whose
\* required_version is the version-comparison part as written, without the
\* marker; and the built node has no other entries
C7_StoredConstraint ==
    Built =>
        /\ \A i \in 1..Len(mid) :
              Collected(mid[i]) =>
                  [name |-> CollapsedLower(Rows[mid[i]].reqName),
                   required_version |-> BeforeMarker(Rows[mid[i]].reqRest)] \in Deps
        /\ \A d \in Deps :
              \E i \in 1..Len(mid) :
                  /\ Rows[mid[i]].isRequires
                  /\ d.name = CollapsedLower(Rows[mid[i]].reqName)
                  /\ d.required_version = BeforeMarker(Rows[mid[i]].reqRest)
                  /\ IsClauses(d.required_version)

C7_Witness ==
    /\ Built
    /\ mid = <<L_NameAb, L_Version10, L_ReqCdOther, L_ReqCdMarkerY>>
    /\ Deps = {[name |-> <<"c","-","d">>,
                required_version |-> <<"=","="," ","2",".","0",",","<","3">>],
               [name |-> <<"c","-","d">>, required_version |-> <<">","=","1",".","0">>]}

(***************************************************************************)
(* Claims about graph assembly and the Root Finder (checked under Spec)    *)
(***************************************************************************)
KeyA == <<"a">>
KeyBb == <<"b","-","b">>

\* C1: the roots are exactly the graph keys that no node of the graph, the
\* node itself included, names as a dependency; a name that is not a key is
\* never a root; with A -> {B} and B -> {} the roots are {A}
C1_RootsAreUnreferencedKeys ==
    dag.some =>
        /\ top_level_distributions =
              {k \in DOMAIN dag.val :
                  \A n \in DOMAIN dag.val : \A d \in dag.val[n].dependencies : d.name # k}
        /\ top_level_distributions \subseteq DOMAIN dag.val
        /\ (/\ DOMAIN dag.val = {KeyA, KeyBb}
            /\ {d.name : d \in dag.val[KeyA].dependencies} = {KeyBb}
            /\ dag.val[KeyBb].dependencies = {}) => top_level_distributions = {KeyA}

C1_Witness ==
    /\ dag.some
    /\ DOMAIN dag.val = {KeyA, KeyBb}
    /\ {d.name : d \in dag.val[KeyA].dependencies} = {KeyBb}
    /\ dag.val[KeyBb].dependencies = {}
    /\ top_level_distributions = {KeyA}

\* C4: once Node Builder has failed for a source the run is over: the
\* error is on stderr, the exit status is non-zero, no graph was returned,
\* no root was computed, nothing was printed, and no further step is taken
C4_AssemblyAborts ==
    /\ [](stderr # <<>> =>
            /\ pc = "exited" /\ exit_code = Some(1)
            /\ Len(stderr) = 1
            /\ stderr[1] \in {ParseError, MissingName, MissingVersion}
            /\ dag = None /\ dependency_dag = EmptyDag
            /\ top_level_distributions = {} /\ pending = {}
            /\ stack = <<>> /\ out = <<>>)
    /\ [][stderr # <<>> => UNCHANGED vars]_vars
    /\ [](exit_code = Some(1) => stderr # <<>>)

C4_Witness ==
    /\ pc = "exited" /\ exit_code = Some(1)
    /\ n_sources = 3
    /\ stderr = <<ParseError>>
    /\ dag = None /\ out = <<>>

\* the lines the reader yields for a file
ReadLines(file) == {file[i] : i \in {j \in 1..Len(file) :
                                       \A h \in 1..j : file[h] # Sentinel}}
DeclaredNames(file) == {Rows[l].declName : l \in {r \in ReadLines(file) : Rows[r].isName}}
RequiredNames(file) == {Rows[l].reqName : l \in {r \in ReadLines(file) : Rows[r].isRequires}}

\* C10: every key and every dependency name of the graph is in normalized
\* form, and a distribution declared with "Name: X" and required by another
\* node under a raw name Y that normalizes as X does is a key of the graph
\* (the renderer's lookup finds it) and is not a root
C10_SameDistribution ==
    dag.some =>
        /\ \A k \in DOMAIN dag.val :
              /\ CollapsedLower(k) = k
              /\ \A d \in dag.val[k].dependencies : CollapsedLower(d.name) = d.name
        /\ \A k1, k2 \in DOMAIN dag.val :
              k1 # k2 =>
                \A X \in DeclaredNames(origin[k1]), Y \in RequiredNames(origin[k2]) :
                    CollapsedLower(X) = CollapsedLower(Y) =>
                        /\ CollapsedLower(X) \in DOMAIN dag.val
                        /\ CollapsedLower(X) \notin top_level_distributions

(***************************************************************************)
(* Claims about the Tree Renderer (checked under Spec)                     *)
(***************************************************************************)
Dashes(n) == [i \in 1..n |-> "-"]
TxtRequired == <<" ","[","r","e","q","u","i","r","e","d","=">>
TxtInstalled == <<"i","n","s","t","a","l","l","e","d","=">>
TxtNotInstalled == <<"N","o","t","-","i","n","s","t","a","l","l","e","d">>

\* the line of a node reached as a dependency
ChildLine(name, constraint, installed, depth) ==
    Dashes(4 * depth) \o name \o TxtRequired \o constraint \o <<",", " ">>
        \o TxtInstalled \o installed \o <<"]">>

\* the line of a root
RootLine(name, installed) == name \o <<" ", "[">> \o TxtInstalled \o installed \o <<"]">>

Top == stack[Len(stack)]

\* the visit on top of the stack is of a name that is not a key of the graph
VisitingAbsent == pc = "render" /\ stack # <<>> /\ Top.node_name \notin DOMAIN dag.val

\* C11: a dependency whose name is not a key of the graph is visited, not
\* left out: the step that takes it prints exactly one line for it, with
\* the marker Not-installed; the visit has no children and returns without
\* printing anything else; the run does not fail
C11_NotInstalledPlaceholder ==
    /\ [](VisitingAbsent => Top.todo = {} /\ stderr = <<>> /\ Top.node_required_ver.some)
    /\ [][(/\ pc = "render" /\ stack # <<>>
           /\ \E dep \in Top.todo :
                 /\ dep.name \notin DOMAIN dag.val
                 /\ Len(stack') >= Len(stack)
                 /\ dep \notin stack'[Len(stack)].todo)
          => \E dep \in Top.todo :
                 /\ dep.name \notin DOMAIN dag.val
                 /\ Len(stack') = Len(stack) + 1
                 /\ stack'[Len(stack')].node_name = dep.name
                 /\ stack'[Len(stack')].todo = {}
                 /\ out' = Append(out, ChildLine(dep.name, dep.required_version,
                                                 TxtNotInstalled, Len(stack)))]_vars
    /\ [][VisitingAbsent =>
             /\ stack' = SubSeq(stack, 1, Len(stack) - 1)
             /\ out' = out /\ pc' = pc /\ exit_code' = exit_code]_vars

C11_Witness ==
    /\ VisitingAbsent
    /\ Top.node_name = <<"c">>
    /\ out[Len(out)] = ChildLine(<<"c">>, <<"<","3">>, TxtNotInstalled, 1)

\* the installed version the renderer shows for a name
InstalledOf(name) ==
    IF name \in DOMAIN dag.val THEN dag.val[name].installed_version ELSE TxtNotInstalled

\* C12: every printed line belongs to one visit and every visit prints one
\* line; a visit started by main (depth 0) prints '<name> [installed=<v>]'
\* without dashes, a visit of a dependency at depth d >= 1 prints 4*d dashes
\* and '<name> [required=<c>, installed=<v>]' where c is the
\* required_version of the entry through which the node was reached
C12_OutputFormat ==
    /\ [](\A i \in 1..Len(stack) :
            /\ stack[i].level = 4 * (i - 1)
            /\ stack[i].node_required_ver.some <=> i > 1)
    /\ [][(out' # out \/ Len(stack') > Len(stack)) =>
            /\ pc = "render"
            /\ Len(stack') = Len(stack) + 1
            /\ Len(out') = Len(out) + 1
            /\ SubSeq(out', 1, Len(out)) = out
            /\ IF stack = <<>>
               THEN \E tlp \in top_level_distributions :
                       /\ stack'[1].node_name = tlp
                       /\ out'[Len(out')] = RootLine(tlp, InstalledOf(tlp))
               ELSE \E dep \in Top.todo :
                       /\ stack'[Len(stack')].node_name = dep.name
                       /\ out'[Len(out')] =
                             ChildLine(dep.name, dep.required_version,
                                       InstalledOf(dep.name), Len(stack))]_vars

C12_Witness ==
    /\ pc = "render"
    /\ out = << RootLine(<<"c">>, <<"1",".","0">>),
                ChildLine(<<"a">>, <<">","=","1",".","0">>, <<"1",".","0">>, 1),
                ChildLine(<<"b","-","b">>, <<"=","=","2",".","0">>, <<"1",".","0">>, 2) >>

\* the names the node of the graph depends on
DepNames(name) ==
    IF name \in DOMAIN dag.val THEN {d.name : d \in dag.val[name].dependencies} ELSE {}

RECURSIVE ReachableIn(_, _)
ReachableIn(S, k) ==
    IF k = 0 THEN S ELSE ReachableIn(S \cup UNION {DepNames(x) : x \in S}, k - 1)

\* the names reachable from the node along one or more dependency edges
ReachableFrom(name) == ReachableIn(DepNames(name), Cardinality(DOMAIN dag.val))

\* a dependency cycle among installed distributions is reachable from the node
ReachesCycle(name) ==
    \E m \in (ReachableFrom(name) \cup {name}) \cap DOMAIN dag.val : m \in ReachableFrom(m)

\* C13: a visit of a node from which a dependency cycle among installed
\* distributions is reachable never returns: as long as it is on the
\* stack it has a dependency left that reaches the cycle or is waiting for
\* the visit of one, every visit it starts prints a line one level deeper,
\* and the run never exits while such a visit has started
C13_NoCycleDetection ==
    /\ [](\A i \in 1..Len(stack) :
            ReachesCycle(stack[i].node_name) =>
                \/ \E dep \in stack[i].todo : ReachesCycle(dep.name)
                \/ i < Len(stack) /\ ReachesCycle(stack[i + 1].node_name))
    /\ [][(stack # <<>> /\ ReachesCycle(Top.node_name)) =>
             /\ Len(stack') = Len(stack) + 1
             /\ Len(out') = Len(out) + 1
             /\ stack'[Len(stack')].level = Top.level + 4
             /\ pc' = "render"]_vars
    /\ [][(stack # <<>> /\ ReachesCycle(stack[1].node_name)) => stack' # <<>>]_vars

C13_Witness ==
    /\ pc = "render"
    /\ Len(stack) = 4
    /\ stack[1].node_name = <<"c">>
    /\ stack[2].node_name = <<"a">> /\ stack[3].node_name = <<"b","-","b">>
    /\ stack[4].node_name = <<"a">>
    /\ stack[4].todo # {}
    /\ out[4] = ChildLine(<<"a">>, <<">","=","1",".","0">>, <<"1",".","0">>, 3)

(***************************************************************************)
(* More claims about Node Builder (checked under SpecNode)                 *)
(***************************************************************************)
\* the position of the last line of the sequence that is a Name declaration
LastNameDecl(lines) ==
    CHOOSE i \in 1..Len(lines) :
        Rows[lines[i]].isName /\ \A j \in (i + 1)..Len(lines) : ~Rows[lines[j]].isName

LastVersionDecl(lines) ==
    CHOOSE i \in 1..Len(lines) :
        Rows[lines[i]].isVersion /\ \A j \in (i + 1)..Len(lines) : ~Rows[lines[j]].isVersion

\* C14: the name of a built node is the normalization of the name the last
\* Name declaration captured, and its installed_version is the token the
\* last Version declaration captured, whatever the other lines are
C14_LastDeclarationWins ==
    Built =>
        /\ HasNameDecl(mid) =>
              result.val.name = CollapsedLower(Rows[mid[LastNameDecl(mid)]].declName)
        /\ HasVersionDecl(mid) =>
              result.val.meta.installed_version = Rows[mid[LastVersionDecl(mid)]].declVersion

\* a line one of the three productions matches
MatchesSomeRow(line) == Rows[line].isName \/ Rows[line].isVersion \/ Rows[line].isRequires

\* C15: Node Builder returns for a line sequence what it returns for the
\* sequence without the lines that match none of the three productions; a
\* sequence of such lines alone gives what the empty sequence gives
C15_UnmatchedLinesDropped ==
    pc = "built" =>
        /\ result.val = node_from_file_iter(SelectSeq(mid, MatchesSomeRow))
        /\ (\A i \in 1..Len(mid) : ~MatchesSomeRow(mid[i]))
              => result.val = [ok |-> FALSE, err |-> MissingName]

C15_Witness ==
    /\ Built
    /\ mid = <<L_Other, L_NameAb, L_Empty, L_Version10>>
    /\ result.val = [ok |-> TRUE, name |-> <<"a","-","b">>,
                     meta |-> [installed_version |-> <<"1",".","0">>, dependencies |-> {}]]

\* C16: no node with an empty installed_version is returned by Node Builder
\* or is present in the graph under assembly
C16_InstalledVersionNonEmpty ==
    /\ Built => result.val.meta.installed_version # <<>>
    /\ \A k \in DOMAIN dependency_dag : dependency_dag[k].installed_version # <<>>

\* the lines of the file that precede the first sentinel line, in file order
BeforeSentinel(file) ==
    SubSeq(file, 1, Cardinality({i \in 1..Len(file) : \A j \in 1..i : file[j] # Sentinel}))

\* C17: Node Builder is presented exactly the lines that precede the first
\* line equal to the sentinel, in file order, and its result is what it
\* makes of those lines: the sentinel and the lines after it have no
\* influence
C17_SentinelTruncation ==
    pc = "built" =>
        /\ mid = BeforeSentinel(input)
        /\ \A i \in 1..Len(mid) : mid[i] # Sentinel
        /\ result.val = node_from_file_iter(BeforeSentinel(input))

C17_Witness ==
    /\ Built
    /\ input = <<L_NameAb, L_Version10, L_Sentinel, L_nameC>>
    /\ mid = <<L_NameAb, L_Version10>>
    /\ result.val.name = <<"a","-","b">>

\* the dependency set the renderer finds for a name
DepsOf(name) == IF name \in DOMAIN dag.val THEN dag.val[name].dependencies ELSE {}

\* C18: a visit prints its line when it starts, before any child visit, and
\* starts with the whole dependency set of its node to go through; a child
\* visit takes exactly one entry that is still to be visited and is a visit
\* of that entry's name, labelled with that entry's required_version, one
\* level (4 dashes) deeper; a visit returns only when no entry is left, so
\* every entry is visited exactly once, and a node with an empty
\* dependency set has no child visit
C18_RecursionStep ==
    /\ [](\A i \in 1..Len(stack) : stack[i].todo \subseteq DepsOf(stack[i].node_name))
    /\ [][Len(stack') > Len(stack) =>
             /\ Len(stack') = Len(stack) + 1
             /\ stack'[Len(stack')].todo = DepsOf(stack'[Len(stack')].node_name)
             /\ Len(out') = Len(out) + 1
             /\ stack # <<>> =>
                   \E dep \in Top.todo :
                      /\ stack'[Len(stack')].node_name = dep.name
                      /\ stack'[Len(stack')].node_required_ver = Some(dep.required_version)
                      /\ stack'[Len(stack')].level = Top.level + 4
                      /\ SubSeq(stack', 1, Len(stack)) =
                            [stack EXCEPT ![Len(stack)].todo = @ \ {dep}]]_vars
    /\ [][Len(stack') < Len(stack) =>
             /\ Top.todo = {}
             /\ stack' = SubSeq(stack, 1, Len(stack) - 1)
             /\ out' = out]_vars
    /\ [][Len(stack') = Len(stack) => stack' = stack /\ out' = out]_vars
    /\ [][(stack # <<>> /\ DepsOf(Top.node_name) = {}) => Len(stack') < Len(stack)]_vars

C18_Witness ==
    /\ pc = "render"
    /\ Len(stack) = 1 /\ stack[1].node_name = <<"a">> /\ stack[1].todo = {}
    /\ Len(out) = 3
    /\ out[1] = RootLine(<<"a">>, <<"1",".","0">>)
    /\ {out[2], out[3]} =
          {ChildLine(<<"b","-","b">>, <<"=","=","2",".","0">>, <<"1",".","0">>, 1),
           ChildLine(<<"c">>, <<"<","3">>, <<"1",".","0">>, 1)}

\* a Requires-Dist line whose constraint text the version-comparison grammar
\* does not match
MalformedRequires(line) ==
    Rows[line].isRequires /\ version_comparison(Rows[line].reqRest, 1) = 0

\* C19: the failure conditions are checked in the order name, version,
\* dependency constraints: a sequence with neither a Name nor a Version
\* declaration gives MissingName, one with a Name declaration, no Version
\* declaration and a malformed dependency constraint gives MissingVersion,
\* and the constraint error is returned only for sequences that hold both a
\* Name and a Version declaration
C19_FailureOrder ==
    pc = "built" =>
        /\ (~HasNameDecl(mid) /\ ~HasVersionDecl(mid))
              => result.val = [ok |-> FALSE, err |-> MissingName]
        /\ (/\ HasNameDecl(mid) /\ ~HasVersionDecl(mid)
            /\ \E i \in 1..Len(mid) : MalformedRequires(mid[i]))
              => result.val = [ok |-> FALSE, err |-> MissingVersion]
        /\ result.val = [ok |-> FALSE, err |-> ParseError]
              => HasNameDecl(mid) /\ HasVersionDecl(mid)

\* the pairs (normalized dependency name, stored constraint) of the
\* Requires-Dist lines of a sequence
RequiredPairs(lines) ==
    {[name |-> CollapsedLower(Rows[lines[i]].reqName),
      required_version |-> BeforeMarker(Rows[lines[i]].reqRest)] :
        i \in {j \in 1..Len(lines) : Rows[lines[j]].isRequires}}

\* C20: the dependency set of a built node holds exactly one entry per
\* distinct pair (normalized dependency name, stored constraint) among the
\* Requires-Dist lines it was built from
C20_DependencySetCardinality ==
    Built =>
        /\ Deps = RequiredPairs(mid)
        /\ Cardinality(Deps) = Cardinality(RequiredPairs(mid))

\* what Node Builder has collected after the first i lines of the sequence
Scanned(lines, i) == Scan(ScanInit, SubSeq(lines, 1, i))

\* the number of productions that match the line
MatchCount(line) ==
    Cardinality({r \in {"name", "version", "requires"} :
                    \/ r = "name" /\ Rows[line].isName
                    \/ r = "version" /\ Rows[line].isVersion
                    \/ r = "requires" /\ Rows[line].isRequires})

\* C21: a line matches at most one production, and processing a
\* Requires-Dist line leaves the name and the version collected so far as
\* they were and adds the declaration to the dependencies collected so far,
\* whatever the dependency name is
C21_RequiresOnlyFeedsDependencies ==
    pc = "built" =>
        \A i \in 1..Len(mid) :
            /\ MatchCount(mid[i]) <= 1
            /\ Rows[mid[i]].isRequires =>
                  /\ Scanned(mid, i).name = Scanned(mid, i - 1).name
                  /\ Scanned(mid, i).version = Scanned(mid, i - 1).version
                  /\ \E p \in Scanned(mid, i).dependencies : p[2] = Rows[mid[i]].reqRest

\* a collected Requires-Dist line that carries no version-comparison clause:
\* nothing follows the name and the extras, or only a "; marker" suffix
NoVersionClause(line) ==
    Collected(line) /\ BeforeMarker(ParsedLines[line].value) = <<>>

\* C22: a collected Requires-Dist line that carries a name and no version
\* clause does not make node construction fail: when the sequence has a Name
\* and a Version declaration and every other collected dependency has a
\* well-formed constraint, the node is built and it holds a dependency with
\* the normalized name of each such line
C22_VersionClauseOptional ==
    (/\ pc = "built"
     /\ HasNameDecl(mid) /\ HasVersionDecl(mid)
     /\ \A i \in 1..Len(mid) :
           Collected(mid[i]) /\ ~NoVersionClause(mid[i])
              => version_comparison(ParsedLines[mid[i]].value, 1) # 0)
    => /\ result.val.ok
       /\ \A i \in 1..Len(mid) :
             NoVersionClause(mid[i])
                => \E d \in Deps : d.name = CollapsedLower(Rows[mid[i]].reqName)

(***************************************************************************)
(* Rendering of whole graphs (checked under SpecLive and Spec)             *)
(***************************************************************************)
\* no installed distribution reaches itself along dependency edges
Acyclic == \A k \in DOMAIN dag.val : k \notin ReachableFrom(k)

\* the graph keys no node depends on
Roots == {k \in DOMAIN dag.val : \A m \in DOMAIN dag.val : k \notin DepNames(m)}

\* every name that occurs in the graph, installed or not
AllNames == DOMAIN dag.val \cup UNION {DepNames(k) : k \in DOMAIN dag.val}

\* the dependency entries that lead to the name: pairs of a graph key and
\* one entry of its dependency set
EntriesTo(name) ==
    {e \in UNION {{<<k, d>> : d \in DepsOf(k)} : k \in DOMAIN dag.val} : e[2].name = name}

\* the number of dependency paths that start at a root and end at the name
\* (defined on graphs without a cycle)
RECURSIVE PathsTo(_)
RECURSIVE PathsThrough(_)
PathsThrough(entries) ==
    IF entries = {} THEN 0
    ELSE PathsTo((CHOOSE e \in entries : TRUE)[1])
            + PathsThrough(entries \ {CHOOSE e \in entries : TRUE})

PathsTo(name) == (IF name \in Roots THEN 1 ELSE 0) + PathsThrough(EntriesTo(name))

RECURSIVE PathsToAll(_)
PathsToAll(names) ==
    IF names = {} THEN 0
    ELSE PathsTo(CHOOSE n \in names : TRUE) + PathsToAll(names \ {CHOOSE n \in names : TRUE})

\* the positions of the output whose line is a line of the name
LinesOf(name) ==
    {i \in 1..Len(out) :
        \/ out[i] = RootLine(name, InstalledOf(name))
        \/ \E e \in EntriesTo(name), depth \in 1..Len(out) :
              out[i] = ChildLine(name, e[2].required_version, InstalledOf(name), depth)}

\* C23: when the graph handed to the renderer has no dependency cycle, the
\* program runs to completion with exit code 0, the number of lines printed
\* is the number of dependency paths that start at a root, and a name
\* reachable along k such paths is printed k times
C23_AcyclicTerminates ==
    (pc = "render" /\ Acyclic)
        ~> (/\ pc = "exited" /\ exit_code = Some(0)
            /\ Acyclic
            /\ Len(out) = PathsToAll(AllNames)
            /\ \A n \in AllNames : Cardinality(LinesOf(n)) = PathsTo(n))

C23_Witness ==
    /\ pc = "exited" /\ exit_code = Some(0)
    /\ Acyclic
    /\ DOMAIN dag.val = {<<"a">>, <<"b","-","b">>, <<"c">>}
    /\ Roots = {<<"a">>}
    /\ PathsTo(<<"c">>) = 2
    /\ Cardinality(LinesOf(<<"c">>)) = 2
    /\ Len(out) = 4

\* the positions of the output whose line is the level-0 line of the name
RootLinesOf(name) == {i \in 1..Len(out) : out[i] = RootLine(name, InstalledOf(name))}

\* the positions of the output whose line has no dashes in front and no
\* required label
LevelZeroLines ==
    {i \in 1..Len(out) : \E n \in AllNames : out[i] = RootLine(n, InstalledOf(n))}

\* C24: when the program has rendered a graph without a dependency cycle,
\* every graph key has at least one line in the output, every root has
\* exactly one line, which is a level-0 line, and the level-0 lines are the
\* lines of the roots
C24_AcyclicCoverage ==
    (pc = "exited" /\ exit_code = Some(0) /\ Acyclic)
    => /\ \A k \in DOMAIN dag.val : LinesOf(k) # {}
       /\ \A r \in Roots :
             Cardinality(RootLinesOf(r)) = 1 /\ LinesOf(r) = RootLinesOf(r)
       /\ LevelZeroLines = UNION {RootLinesOf(r) : r \in Roots}

C24_Witness ==
    /\ pc = "exited" /\ exit_code = Some(0)
    /\ Acyclic
    /\ DOMAIN dag.val = {<<"a">>, <<"b","-","b">>, <<"c">>}
    /\ Roots = {<<"a">>, <<"b","-","b">>}
    /\ Cardinality(RootLinesOf(<<"a">>)) = 1
    /\ Cardinality(RootLinesOf(<<"b","-","b">>)) = 1
    /\ RootLinesOf(<<"c">>) = {}
    /\ Cardinality(LinesOf(<<"c">>)) = 2

\* the graph has been handed to main and every graph key is the name of a
\* dependency entry of some node
AllReferenced ==
    /\ pc \in {"render", "exited"} /\ dag.some
    /\ \A k \in DOMAIN dag.val : \E m \in DOMAIN dag.val : k \in DepNames(m)

\* the graph key is no root and no root reaches it
Unreachable(k) == k \notin Roots /\ \A r \in Roots : k \notin ReachableFrom(r)

\* C25: when every graph key is referenced as a dependency, the set of
\* top-level distributions is empty, no visit is ever started and nothing is
\* printed, and the program exits with code 0; in every graph, a key that no
\* root reaches never has a line in the output
C25_NoRootsNoOutput ==
    /\ [](AllReferenced =>
            top_level_distributions = {} /\ pending = {} /\ stack = <<>> /\ out = <<>>)
    /\ ((pc = "render" /\ AllReferenced)
            ~> (pc = "exited" /\ exit_code = Some(0) /\ out = <<>>))
    /\ [](dag.some => \A k \in DOMAIN dag.val : Unreachable(k) => LinesOf(k) = {})

C25_Witness ==
    /\ pc = "exited" /\ exit_code = Some(0)
    /\ AllReferenced
    /\ DOMAIN dag.val = {<<"a">>, <<"b","-","b">>}
    /\ DepNames(<<"a">>) = {<<"b","-","b">>}
    /\ DepNames(<<"b","-","b">>) = {<<"a">>}
    /\ out = <<>>

====
